---- MODULE Spec2Model ----
(***************************************************************************)
(* Model of mcp_toolkit/analytics.py: ToolUsageTracker (per-key aggregate  *)
(* statistics), PerformanceStats (percentiles of a sample stream),         *)
(* AlertEngine (threshold rules with a re-fire cooldown) and               *)
(* AnalyticsReport; of servers/task_tracker.py (a task store persisted as  *)
(* JSON) and of index_documents in servers/markdown_kb.py.                 *)
(* Floats are exact fractions <<num, den>> in lowest                       *)
(* terms where the code divides, and integers elsewhere.                   *)
(* Time is counted in whole seconds; datetime.now(timezone.utc) reads the  *)
(* variable clock, which the environment advances.                         *)
(***************************************************************************)
EXTENDS Integers, Sequences, FiniteSets, TLC

\* ---------------------------------------------------------------------
\* Bounds and input domains
\* ---------------------------------------------------------------------
MaxRules == 2
MaxClock == 3
MaxRecords == 3
MaxTopN == 3
MaxSamples == 4

RuleNames == {"high", "low"}
MetricKeys == {"p99", "rate"}
MetricValues == {0, 1, 2}
Thresholds == {1}
Operators == {"gt", "lt", "eq", "ne"}
Cooldowns == {0, 2}

ToolNames == {"search", "query"}
\* The keys of the runs that rank tools and query unknown keys.
QueryTools == ToolNames \cup {"index"}
\* The <<duration_ms, cost>> pairs recorded in those runs.
QueryInputs == {<<2, 0>>, <<-1, 1>>}
\* The n and by arguments of get_top_tools.
TopNs == (0 - MaxTopN)..MaxTopN
SortKeys == {"count", "cost", "duration", "bogus"}

\* The samples added to a PerformanceStats and the percentiles asked of it.
\* The ids uuid4 may give a task, and the ids the tools are called with.
TaskIds == {"a", "b", "c"}
\* The priority arguments of create_task: the default and one out of range.
CreatePriorities == {2, 5}
\* The <<title, description, priority, status>> arguments of update_task,
\* None where the argument is left out.
UpdateInputs ==
    {<<"u", "None", -99, "None">>, <<"None", "d", -99, "None">>,
     <<"None", "None", 0, "None">>, <<"None", "None", -99, "pending">>,
     <<"None", "None", -99, "in_progress">>,
     <<"None", "None", -99, "completed">>,
     <<"u", "None", 5, "None">>, <<"None", "d", -99, "bogus">>,
     <<"None", "None", 0, "bogus">>, <<"None", "None", -99, "None">>}
\* The update_task arguments that set a status and nothing else.
StatusInputs ==
    {<<"None", "None", -99, st>> :
        st \in {"pending", "in_progress", "completed"}}
\* The ids of the runs that edit every field of a task.
EditIds == {"a", "b"}
\* The <<status, priority>> arguments of list_tasks.
ListInputs == {<<"None", -99>>, <<"pending", -99>>, <<"None", 2>>,
               <<"bogus", -99>>}

\* The files a scanned directory may hold, in the order sorted() gives their
\* paths below the root "docs": parent is filepath.parent.name.
File(path, parent, stem, ext, content) ==
    [path |-> path, parent |-> parent, stem |-> stem, ext |-> ext,
     content |-> content]
AllFiles ==
    <<File("docs/a/readme.md", "a", "readme", ".md", "# First"),
      File("docs/b/readme.md", "b", "readme", ".md", "# Second"),
      File("docs/c/b/readme.md", "b", "readme", ".md", "third"),
      File("docs/guide.md", "docs", "guide", ".md", "guide text"),
      File("docs/notes.txt", "docs", "notes", ".txt", ""),
      File("docs/todo.txt", "docs", "todo", ".txt", "# First")>>
\* The extensions arguments of index_documents, <<>> for None.
ExtensionLists == {<<>>, <<<<".md">>>>, <<<<".txt">>>>, <<<<".md", ".txt">>>>}

SampleValues == {-3, 1, 2, 10}
Percents == {0, 25, 50, 75, 95, 99, 100}
Durations == {-1, 2}
Costs == {0, 1}

\* Python's None where a timestamp is expected (dict.get on a missing key).
NoneT == -1

\* ---------------------------------------------------------------------
\* State
\* ---------------------------------------------------------------------
VARIABLES
    clock,        \* datetime.now(timezone.utc), in seconds
    rules,        \* AlertEngine._rules
    last_fired,   \* AlertEngine._last_fired: rule name -> timestamp
    rule_fired,   \* history: per registered rule, when it last emitted
    call,         \* the AlertEngine call that has just returned, with its result
    invocations,  \* ToolUsageTracker._invocations
    stats,        \* ToolUsageTracker._stats: tool name -> ToolStats
    recorded,     \* history: the arguments of every record call, in order
    ret,          \* the ToolUsageTracker query that has just returned
    snapshot,     \* the dict a caller holds from its last get_all_stats()
    samples,      \* PerformanceStats._samples
    added,        \* history: the arguments of every add_sample call, in order
    pret,         \* the PerformanceStats query that has just returned
    report,       \* the AnalyticsReport a caller has constructed
    tasks_file,   \* the file at _tasks_file(): the persisted task store
    tret,         \* the task_tracker tool call that has just returned
    index_state,  \* markdown_kb._index_state
    iret          \* the markdown_kb tool call that has just returned

vars == <<clock, rules, last_fired, rule_fired, call, invocations, stats,
          recorded, ret, snapshot, samples, added, pret, report,
          tasks_file, tret, index_state, iret>>
engineVars == <<rules, last_fired, rule_fired, call>>
trackerVars == <<invocations, stats, recorded>>
queryVars == <<ret, snapshot>>
perfVars == <<samples, added, pret>>
taskVars == <<tasks_file, tret>>
kbVars == <<index_state, iret>>
serverVars == <<taskVars, kbVars>>
\* Everything of analytics.py.
analyticsVars == <<engineVars, trackerVars, queryVars, perfVars, report>>
\* What the ToolUsageTracker leaves alone besides the clock.
notTracker == <<engineVars, perfVars, report, serverVars>>
\* What the AlertEngine and the clock leave alone.
notEngine == <<trackerVars, queryVars, perfVars, report, serverVars>>
\* What the PerformanceStats leaves alone.
notPerf == <<clock, engineVars, trackerVars, queryVars, report, serverVars>>

\* ---------------------------------------------------------------------
\* Value types
\* ---------------------------------------------------------------------
AlertRule(name, metric, threshold, operator, cooldown_seconds) ==
    [name |-> name, metric |-> metric, threshold |-> threshold,
     operator |-> operator, cooldown_seconds |-> cooldown_seconds]

\* The rules add_rule is called with: both names with both cooldowns on the
\* "p99" metric, and one name with the other operators on the "rate" metric.
AllRules ==
    {AlertRule(n, "p99", t, "gt", c) :
        n \in RuleNames, t \in Thresholds, c \in Cooldowns}
    \cup {AlertRule("low", "rate", t, o, 2) :
        t \in Thresholds, o \in Operators \ {"gt"}}

Alert(rule_name, current_value, threshold, triggered_at) ==
    [rule_name |-> rule_name, current_value |-> current_value,
     threshold |-> threshold, triggered_at |-> triggered_at]

\* A metrics argument: a mapping defined on any subset of the metric keys.
AllMetrics == UNION {[D -> MetricValues] : D \in SUBSET MetricKeys}

EmptyMap == [k \in {} |-> 0]

\* d[k] = v for a Python dict d.
DictSet(d, k, v) == [x \in (DOMAIN d) \cup {k} |-> IF x = k THEN v ELSE d[x]]

\* d.get(k, 0): a default of 0 where the code has None.
DictGetZero(d, k) == IF k \in DOMAIN d THEN d[k] ELSE 0

\* d.get(k) for a dict of timestamps.
DictGet(d, k) == IF k \in DOMAIN d THEN d[k] ELSE NoneT

\* ---------------------------------------------------------------------
\* Floats that come from a division
\* ---------------------------------------------------------------------
RECURSIVE GCD(_, _)
GCD(a, b) == IF b = 0 THEN a ELSE GCD(b, a % b)

Abs(x) == IF x < 0 THEN 0 - x ELSE x
Min(a, b) == IF a <= b THEN a ELSE b
Max(a, b) == IF a >= b THEN a ELSE b

\* num / den for den > 0, in lowest terms.
Frac(num, den) ==
    LET g == GCD(Abs(num), den)
    IN  <<num \div g, den \div g>>

\* The literal 0.0.
Zero == <<0, 1>>

FracLeq(x, y) == x[1] * y[2] <= y[1] * x[2]
FracLess(x, y) == x[1] * y[2] < y[1] * x[2]

\* ---------------------------------------------------------------------
\* AlertEngine
\* ---------------------------------------------------------------------
NoCall == [op |-> "none"]

\* The chain with a final else that reads any other operator as "not equal".
TriggeredElse(rule, value) ==
    IF rule.operator = "gt" /\ value > rule.threshold THEN TRUE
    ELSE IF rule.operator = "lt" /\ value < rule.threshold THEN TRUE
    ELSE IF rule.operator = "eq" /\ value = rule.threshold THEN TRUE
    ELSE rule.operator \notin {"gt", "lt", "eq"} /\ value # rule.threshold

\* The if/elif chain that sets `triggered`.
Triggered(rule, value) ==
    IF rule.operator = "gt" /\ value > rule.threshold THEN TRUE
    ELSE IF rule.operator = "lt" /\ value < rule.threshold THEN TRUE
    ELSE IF rule.operator = "eq" /\ value = rule.threshold THEN TRUE
    ELSE FALSE

\* The window one second short.
InCooldownShort(last, rule, now) ==
    last # NoneT /\ (now - last) < rule.cooldown_seconds - 1

\* The window closed at its end: <= where the code has <.
InCooldownClosed(last, rule, now) ==
    last # NoneT /\ (now - last) <= rule.cooldown_seconds

\* `last and (now - last).total_seconds() < rule.cooldown_seconds`
InCooldown(last, rule, now) ==
    last # NoneT /\ (now - last) < rule.cooldown_seconds

\* One evaluated rule, as seen by the loop: the maps before and after it,
\* the firing history before it, and whether it appended an alert.
Step(st, lf, emitted) ==
    [before |-> st.last_fired, after |-> lf,
     fired |-> st.rule_fired, emitted |-> emitted]

\* `continue`: the rule leaves the loop state as it is.
Continue(st) ==
    [st EXCEPT !.trace = Append(@, Step(st, st.last_fired, FALSE))]

\* The tail of the loop body with alerts.insert(0, ...) for alerts.append(...).
FirePrepend(st, i, rule, value, now) ==
    LET lf == DictSet(st.last_fired, rule.name, now)
    IN  [last_fired |-> lf,
         rule_fired |-> [st.rule_fired EXCEPT ![i] = now],
         alerts |-> <<Alert(rule.name, value, rule.threshold, now)>> \o st.alerts,
         trace |-> Append(st.trace, Step(st, lf, TRUE))]

\* The tail of the loop body keeping the first timestamp of a name:
\* setdefault for the assignment.
FireFirst(st, i, rule, value, now) ==
    LET lf == IF rule.name \in DOMAIN st.last_fired THEN st.last_fired
              ELSE DictSet(st.last_fired, rule.name, now)
    IN  [last_fired |-> lf,
         rule_fired |-> [st.rule_fired EXCEPT ![i] = now],
         alerts |-> Append(st.alerts, Alert(rule.name, value, rule.threshold, now)),
         trace |-> Append(st.trace, Step(st, lf, TRUE))]

\* The tail of the loop body: record now and append the alert.
Fire(st, i, rule, value, now) ==
    LET lf == DictSet(st.last_fired, rule.name, now)
    IN  [last_fired |-> lf,
         rule_fired |-> [st.rule_fired EXCEPT ![i] = now],
         alerts |-> Append(st.alerts, Alert(rule.name, value, rule.threshold, now)),
         trace |-> Append(st.trace, Step(st, lf, TRUE))]

\* The loop body with a suppressed trigger restarting the window.
CheckRuleRefresh(st, i, rule, metrics, now) ==
    IF rule.metric \notin DOMAIN metrics THEN Continue(st)
    ELSE LET value == metrics[rule.metric]
         IN  IF Triggered(rule, value)
             THEN IF InCooldown(DictGet(st.last_fired, rule.name), rule, now)
                  THEN LET lf == DictSet(st.last_fired, rule.name, now)
                       IN  [st EXCEPT !.last_fired = lf,
                                      !.trace = Append(@, Step(st, lf, FALSE))]
                  ELSE Fire(st, i, rule, value, now)
             ELSE Continue(st)

\* The loop body with the cooldown kept per rule object instead of per name.
CheckRuleOwn(st, i, rule, metrics, now) ==
    IF rule.metric \notin DOMAIN metrics THEN Continue(st)
    ELSE LET value == metrics[rule.metric]
         IN  IF Triggered(rule, value)
             THEN IF InCooldown(st.rule_fired[i], rule, now)
                  THEN Continue(st)
                  ELSE Fire(st, i, rule, value, now)
             ELSE Continue(st)

\* The body of `for rule in self._rules`, for the rule at position i.
CheckRule(st, i, rule, metrics, now) ==
    IF rule.metric \notin DOMAIN metrics THEN Continue(st)
    ELSE LET value == metrics[rule.metric]
         IN  IF Triggered(rule, value)
             THEN IF InCooldown(DictGet(st.last_fired, rule.name), rule, now)
                  THEN Continue(st)
                  ELSE Fire(st, i, rule, value, now)
             ELSE Continue(st)

\* The loop with `break` for the `continue` of a missing metric.
RECURSIVE CheckLoopBreak(_, _, _, _, _)
CheckLoopBreak(st, i, rs, metrics, now) ==
    IF i > Len(rs) THEN st
    ELSE IF rs[i].metric \notin DOMAIN metrics THEN st
    ELSE CheckLoopBreak(CheckRule(st, i, rs[i], metrics, now), i + 1, rs, metrics, now)

RECURSIVE CheckLoop(_, _, _, _, _)
CheckLoop(st, i, rs, metrics, now) ==
    IF i > Len(rs) THEN st
    ELSE CheckLoop(CheckRule(st, i, rs[i], metrics, now), i + 1, rs, metrics, now)

\* AlertEngine.__init__
EngineInit ==
    /\ rules = <<>>
    /\ last_fired = EmptyMap
    /\ rule_fired = <<>>
    /\ call = NoCall

\* add_rule starting the name of the new rule as never fired.
add_rule_fresh(rule) ==
    /\ Len(rules) < MaxRules
    /\ rules' = Append(rules, rule)
    /\ rule_fired' = Append(rule_fired, NoneT)
    /\ last_fired' = [k \in DOMAIN last_fired \ {rule.name} |-> last_fired[k]]
    /\ call' = [op |-> "add_rule"]
    /\ UNCHANGED <<clock, notEngine>>

\* AlertEngine.add_rule
add_rule(rule) ==
    /\ Len(rules) < MaxRules
    /\ rules' = Append(rules, rule)
    /\ rule_fired' = Append(rule_fired, NoneT)
    /\ call' = [op |-> "add_rule"]
    /\ UNCHANGED <<clock, last_fired, notEngine>>

\* AlertEngine.check
check(metrics) ==
    LET now == clock
        st0 == [last_fired |-> last_fired, rule_fired |-> rule_fired,
                alerts |-> <<>>, trace |-> <<>>]
        st == CheckLoop(st0, 1, rules, metrics, now)
    IN  /\ last_fired' = st.last_fired
        /\ rule_fired' = st.rule_fired
        /\ call' = [op |-> "check", metrics |-> metrics, now |-> now,
                    alerts |-> st.alerts, trace |-> st.trace]
        /\ UNCHANGED <<clock, rules, notEngine>>

\* The wall clock moves on between calls.
Tick ==
    /\ clock < MaxClock
    /\ clock' = clock + 1
    /\ call' = NoCall
    /\ UNCHANGED <<rules, last_fired, rule_fired, notEngine>>

\* ---------------------------------------------------------------------
\* ToolUsageTracker
\* ---------------------------------------------------------------------
ToolStats(count, success_count, total_duration_ms, total_cost) ==
    [count |-> count, success_count |-> success_count,
     total_duration_ms |-> total_duration_ms, total_cost |-> total_cost]

\* The event built without its cost, which then has the default 0.0.
ToolInvocationNoCost(tool_name, timestamp, duration_ms, success, cost, metadata) ==
    [tool_name |-> tool_name, timestamp |-> timestamp,
     duration_ms |-> duration_ms, success |-> success, cost |-> 0,
     metadata |-> metadata]

ToolInvocation(tool_name, timestamp, duration_ms, success, cost, metadata) ==
    [tool_name |-> tool_name, timestamp |-> timestamp,
     duration_ms |-> duration_ms, success |-> success, cost |-> cost,
     metadata |-> metadata]

\* A metadata argument is <<>> for None and <<d>> for the dict d.
Metadatas == {<<>>, <<[k \in {"k"} |-> "v"]>>}

\* `metadata or {}`
MetadataOrEmpty(metadata) ==
    IF metadata = <<>> \/ DOMAIN metadata[1] = {} THEN EmptyMap ELSE metadata[1]

\* The update with success_count incremented on every call.
RecordStatsAlways(st, tool_name, duration_ms, success, cost) ==
    LET st1 == IF tool_name \notin DOMAIN st
               THEN DictSet(st, tool_name, ToolStats(0, 0, 0, 0))
               ELSE st
        s == st1[tool_name]
    IN  [st1 EXCEPT ![tool_name] =
            ToolStats(s.count + 1, s.success_count + 1,
                      s.total_duration_ms + duration_ms, s.total_cost + cost)]

\* The update with count incremented only for a key that was already there.
RecordStatsElse(st, tool_name, duration_ms, success, cost) ==
    LET st1 == IF tool_name \notin DOMAIN st
               THEN DictSet(st, tool_name, ToolStats(0, 0, 0, 0))
               ELSE st
        s == st1[tool_name]
    IN  [st1 EXCEPT ![tool_name] =
            ToolStats(IF tool_name \in DOMAIN st THEN s.count + 1 ELSE s.count,
                      IF success THEN s.success_count + 1 ELSE s.success_count,
                      s.total_duration_ms + duration_ms,
                      s.total_cost + cost)]

\* The update with one ToolStats object shared by every key.
RecordStatsShared(st, tool_name, duration_ms, success, cost) ==
    LET st1 == IF tool_name \notin DOMAIN st
               THEN DictSet(st, tool_name, ToolStats(0, 0, 0, 0))
               ELSE st
        s == st1[tool_name]
    IN  [k \in DOMAIN st1 |->
            ToolStats(s.count + 1,
                      IF success THEN s.success_count + 1 ELSE s.success_count,
                      s.total_duration_ms + duration_ms,
                      s.total_cost + cost)]

\* The update of self._stats in record.
RecordStats(st, tool_name, duration_ms, success, cost) ==
    LET st1 == IF tool_name \notin DOMAIN st
               THEN DictSet(st, tool_name, ToolStats(0, 0, 0, 0))
               ELSE st
        s == st1[tool_name]
    IN  [st1 EXCEPT ![tool_name] =
            ToolStats(s.count + 1,
                      IF success THEN s.success_count + 1 ELSE s.success_count,
                      s.total_duration_ms + duration_ms,
                      s.total_cost + cost)]

\* ToolUsageTracker.get_stats
get_stats(tool_name) ==
    IF tool_name \in DOMAIN stats THEN stats[tool_name] ELSE ToolStats(0, 0, 0, 0)

NoRet == [op |-> "none"]
NoSnapshot == [taken |-> FALSE]

\* ToolUsageTracker.__init__
TrackerInit ==
    /\ invocations = <<>>
    /\ stats = EmptyMap
    /\ recorded = <<>>
    /\ ret = NoRet
    /\ snapshot = NoSnapshot

\* ToolUsageTracker.record
record(tool_name, duration_ms, success, cost, metadata) ==
    LET inv == ToolInvocation(tool_name, clock, duration_ms, success, cost,
                              MetadataOrEmpty(metadata))
    IN  /\ Len(invocations) < MaxRecords
        /\ invocations' = Append(invocations, inv)
        /\ stats' = RecordStats(stats, tool_name, duration_ms, success, cost)
        /\ recorded' = Append(recorded,
               [tool_name |-> tool_name, duration_ms |-> duration_ms,
                success |-> success, cost |-> cost, metadata |-> metadata])
        /\ ret' = NoRet
        /\ UNCHANGED <<clock, notTracker, snapshot>>

\* ToolStats.success_rate
success_rate(s) ==
    IF s.count = 0 THEN Zero ELSE Frac(s.success_count, s.count)

\* ToolStats.avg_duration
avg_duration(s) ==
    IF s.count = 0 THEN Zero ELSE Frac(s.total_duration_ms, s.count)

\* References to ToolStats objects.  record creates the object of a key once
\* and never rebinds the key, so the object stored under a key is named by
\* the key and stats[key] is its present content; an object built by a
\* query and stored nowhere carries its content with it.
Live(key) == [kind |-> "live", key |-> key]
Fresh(s) == [kind |-> "fresh", val |-> s]

\* What a reference shows when it is read now.
Content(r) == IF r.kind = "live" THEN stats[r.key] ELSE r.val

\* self._stats.setdefault(tool_name, ToolStats()) for .get(...).
GetStatsSetDefault(st, tool_name) ==
    [value |-> Live(tool_name),
     stats |-> IF tool_name \in DOMAIN st THEN st
               ELSE DictSet(st, tool_name, ToolStats(0, 0, 0, 0))]

\* self._stats.get(tool_name, ToolStats()): the returned object and the
\* stats map after the call.
GetStatsCall(st, tool_name) ==
    [value |-> IF tool_name \in DOMAIN st THEN Live(tool_name)
               ELSE Fresh(ToolStats(0, 0, 0, 0)),
     stats |-> st]

\* ToolUsageTracker.get_stats, as a call
GetStats(tool_name) ==
    LET r == GetStatsCall(stats, tool_name)
    IN  /\ ret' = [op |-> "get_stats", tool_name |-> tool_name,
                   raised |-> "none", value |-> r.value, before |-> stats]
        /\ stats' = r.stats
        /\ UNCHANGED <<clock, notTracker, invocations, recorded, snapshot>>

\* dict(self._stats): a new dict holding the same ToolStats objects.
ShallowCopy(st) == [k \in DOMAIN st |-> Live(k)]

\* ToolUsageTracker.get_all_stats; the caller keeps the returned dict, and
\* seen remembers what its entries showed when it was returned.
get_all_stats ==
    /\ snapshot' = [taken |-> TRUE, dict |-> ShallowCopy(stats), seen |-> stats]
    /\ ret' = [op |-> "get_all_stats", raised |-> "none"]
    /\ UNCHANGED <<clock, notTracker, trackerVars>>

\* The keys of self._stats in dict order: the order of their first record.
RECURSIVE InsertionOrder(_)
InsertionOrder(invs) ==
    IF invs = <<>> THEN <<>>
    ELSE LET front == InsertionOrder(SubSeq(invs, 1, Len(invs) - 1))
             name == invs[Len(invs)].tool_name
         IN  IF \E i \in DOMAIN front : front[i] = name
             THEN front
             ELSE Append(front, name)

\* self._stats.items()
Items(invs) ==
    LET order == InsertionOrder(invs)
    IN  [i \in 1..Len(order) |-> <<order[i], Live(order[i])>>]

ValidSortKeys == {"count", "cost", "duration"}

\* key_map[by](item)
SortField(by, s) ==
    CASE by = "count" -> s.count
      [] by = "cost" -> s.total_cost
      [] by = "duration" -> s.total_duration_ms

\* sorted(items, key=..., reverse=False): ascending, equal keys in their
\* original order.
RECURSIVE SortedForward(_, _, _)
SortedForward(items, by, st) ==
    IF items = <<>> THEN <<>>
    ELSE LET front == SortedForward(SubSeq(items, 1, Len(items) - 1), by, st)
             x == items[Len(items)]
             n == Cardinality({i \in DOMAIN front :
                      SortField(by, st[front[i][1]]) <= SortField(by, st[x[1]])})
         IN  SubSeq(front, 1, n) \o <<x>> \o SubSeq(front, n + 1, Len(front))

\* sorted(items, key=..., reverse=True): descending, equal keys in their
\* original order.
RECURSIVE SortedReverse(_, _, _)
SortedReverse(items, by, st) ==
    IF items = <<>> THEN <<>>
    ELSE LET front == SortedReverse(SubSeq(items, 1, Len(items) - 1), by, st)
             x == items[Len(items)]
             n == Cardinality({i \in DOMAIN front :
                      SortField(by, st[front[i][1]]) >= SortField(by, st[x[1]])})
         IN  SubSeq(front, 1, n) \o <<x>> \o SubSeq(front, n + 1, Len(front))

\* items[:n]
SliceTo(items, n) ==
    LET stop == IF n < 0 THEN Max(Len(items) + n, 0) ELSE Min(n, Len(items))
    IN  SubSeq(items, 1, stop)

\* key_map.get(by, key_map["count"]) for the membership test and raise.
TopToolsDefault(st, invs, n, by) ==
    LET key == IF by \in ValidSortKeys THEN by ELSE "count"
    IN  [raised |-> "none",
         value |-> SliceTo(SortedReverse(Items(invs), key, st), n)]

\* The body of get_top_tools: what it raises or returns.
TopTools(st, invs, n, by) ==
    IF by \notin ValidSortKeys THEN [raised |-> "ValueError"]
    ELSE [raised |-> "none",
          value |-> SliceTo(SortedReverse(Items(invs), by, st), n)]

\* ToolUsageTracker.get_top_tools
get_top_tools(n, by) ==
    LET r == TopTools(stats, invocations, n, by)
        head == [op |-> "get_top_tools", n |-> n, by |-> by,
                 raised |-> r.raised, before |-> stats, log |-> invocations]
    IN  /\ ret' = IF r.raised = "none"
                  THEN [op |-> head.op, n |-> n, by |-> by, raised |-> r.raised,
                        before |-> stats, log |-> invocations, value |-> r.value]
                  ELSE head
        /\ UNCHANGED <<clock, notTracker, trackerVars, snapshot>>

\* ---------------------------------------------------------------------
\* PerformanceStats
\* ---------------------------------------------------------------------
NoQuery == [op |-> "none"]

\* A sample read as a float.
Float(v) == <<v, 1>>

\* The list in the order it has: the sort left out.
Unsorted(s) == s

\* The ascending order of a list.
RECURSIVE Sorted(_)
Sorted(s) ==
    IF s = <<>> THEN <<>>
    ELSE LET front == Sorted(SubSeq(s, 1, Len(s) - 1))
             x == s[Len(s)]
             n == Cardinality({i \in DOMAIN front : front[i] <= x})
         IN  SubSeq(front, 1, n) \o <<x>> \o SubSeq(front, n + 1, Len(front))

\* self._samples.sort(): the list itself is put in order.
SortInPlace(s) == [sorted |-> Sorted(s), samples |-> Sorted(s)]

\* sorted(self._samples): a new list in order, and the list it was given.
SortedCopy(s) == [sorted |-> Sorted(s), samples |-> s]

\* The nearest rank, without interpolation.
PercentileNearest(s, p) ==
    IF s = <<>> THEN Zero
    ELSE LET sorted_samples == SortedCopy(s).sorted
             n == Len(sorted_samples)
         IN  IF n = 1 THEN Float(sorted_samples[1])
             ELSE Float(sorted_samples[((p * (n - 1)) \div 100) + 1])

\* The value percentile(p) returns when self._samples is s; k is
\* p * (n - 1) / 100 and the list is indexed from 1.
PercentileOf(s, p) ==
    IF s = <<>> THEN Zero
    ELSE LET sorted_samples == SortedCopy(s).sorted
             n == Len(sorted_samples)
             k100 == p * (n - 1)
             f == k100 \div 100
             c == IF k100 % 100 = 0 THEN f ELSE f + 1
         IN  IF n = 1 THEN Float(sorted_samples[1])
             ELSE IF f = c THEN Float(sorted_samples[f + 1])
             ELSE Frac(100 * sorted_samples[f + 1]
                       + (k100 - 100 * f)
                         * (sorted_samples[c + 1] - sorted_samples[f + 1]),
                       100)

\* self._samples after percentile(p) has run on s.
AfterPercentile(s) == IF s = <<>> THEN s ELSE SortedCopy(s).samples

RECURSIVE Sum(_)
Sum(s) == IF s = <<>> THEN 0 ELSE Sum(SubSeq(s, 1, Len(s) - 1)) + s[Len(s)]

RECURSIVE SumSquares(_)
SumSquares(s) ==
    IF s = <<>> THEN 0
    ELSE SumSquares(SubSeq(s, 1, Len(s) - 1)) + s[Len(s)] * s[Len(s)]

\* min(s) and max(s)
MinOf(s) == CHOOSE x \in {s[i] : i \in DOMAIN s} : \A i \in DOMAIN s : x <= s[i]
MaxOf(s) == CHOOSE x \in {s[i] : i \in DOMAIN s} : \A i \in DOMAIN s : x >= s[i]

\* statistics.mean(s)
Mean(s) == Frac(Sum(s), Len(s))

\* statistics.stdev(s), kept as its square: the sample variance
\* (n * sum of squares - square of the sum) / (n * (n - 1)), for n > 1.
Stdev(s) ==
    LET n == Len(s)
    IN  Frac(n * SumSquares(s) - Sum(s) * Sum(s), n * (n - 1))

\* The dict of summary() with "min" read from the first sample added.
SummaryFirst(s) ==
    IF s = <<>>
    THEN [min |-> Zero, max |-> Zero, mean |-> Zero, std |-> Zero,
          p50 |-> Zero, p95 |-> Zero, p99 |-> Zero, count |-> 0]
    ELSE [min |-> Float(s[1]),
          max |-> Float(MaxOf(s)),
          mean |-> Mean(s),
          std |-> IF Len(s) > 1 THEN Stdev(s) ELSE Zero,
          p50 |-> PercentileOf(s, 50),
          p95 |-> PercentileOf(s, 95),
          p99 |-> PercentileOf(s, 99),
          count |-> Len(s)]

\* The dict summary() returns when self._samples is s.
SummaryOf(s) ==
    IF s = <<>>
    THEN [min |-> Zero, max |-> Zero, mean |-> Zero, std |-> Zero,
          p50 |-> Zero, p95 |-> Zero, p99 |-> Zero, count |-> 0]
    ELSE [min |-> Float(MinOf(s)),
          max |-> Float(MaxOf(s)),
          mean |-> Mean(s),
          std |-> IF Len(s) > 1 THEN Stdev(s) ELSE Zero,
          p50 |-> PercentileOf(s, 50),
          p95 |-> PercentileOf(s, 95),
          p99 |-> PercentileOf(s, 99),
          count |-> Len(s)]

\* PerformanceStats.__init__
PerfInit ==
    /\ samples = <<>>
    /\ added = <<>>
    /\ pret = NoQuery

\* PerformanceStats.add_sample
add_sample(value) ==
    /\ Len(samples) < MaxSamples
    /\ samples' = Append(samples, value)
    /\ added' = Append(added, value)
    /\ pret' = NoQuery
    /\ UNCHANGED notPerf

\* PerformanceStats.percentile
percentile(p) ==
    /\ pret' = [op |-> "percentile", p |-> p, value |-> PercentileOf(samples, p)]
    /\ samples' = AfterPercentile(samples)
    /\ UNCHANGED <<notPerf, added>>

\* PerformanceStats.p50, p95 and p99: the properties that call percentile.
p50 ==
    /\ pret' = [op |-> "p50", p |-> 50, value |-> PercentileOf(samples, 50)]
    /\ samples' = AfterPercentile(samples)
    /\ UNCHANGED <<notPerf, added>>

p95 ==
    /\ pret' = [op |-> "p95", p |-> 95, value |-> PercentileOf(samples, 95)]
    /\ samples' = AfterPercentile(samples)
    /\ UNCHANGED <<notPerf, added>>

p99 ==
    /\ pret' = [op |-> "p99", p |-> 99, value |-> PercentileOf(samples, 99)]
    /\ samples' = AfterPercentile(samples)
    /\ UNCHANGED <<notPerf, added>>

\* PerformanceStats.summary: the dict is built from the list as it is, and
\* its three percentiles each run percentile on it.
summary ==
    /\ pret' = [op |-> "summary", value |-> SummaryOf(samples)]
    /\ samples' = AfterPercentile(AfterPercentile(AfterPercentile(samples)))
    /\ UNCHANGED <<notPerf, added>>

\* ---------------------------------------------------------------------
\* AnalyticsReport
\* ---------------------------------------------------------------------
NoReport == [built |-> FALSE]

\* The dataclass: each field holds the object it was given.
AnalyticsReport(tool_stats, performance, alerts, generated_at) ==
    [tool_stats |-> tool_stats, performance |-> performance,
     alerts |-> alerts, generated_at |-> generated_at]

\* What the fields of a report show when they are read now: the entries of
\* tool_stats are references to ToolStats objects.
ReadBack(r) ==
    [tool_stats |-> [k \in DOMAIN r.tool_stats |-> Content(r.tool_stats[k])],
     performance |-> r.performance,
     alerts |-> r.alerts,
     generated_at |-> r.generated_at]

\* The alert lists a caller has at hand: an empty list, or the list the
\* check that has just returned gave it.
AlertLists == {<<>>} \cup (IF call.op = "check" THEN {call.alerts} ELSE {})

\* AnalyticsReport(tool_stats=tracker.get_all_stats(),
\* performance=perf.summary(), alerts=alerts), with generated_at left to its
\* default; built remembers what the fields showed at construction.
BuildReport(alerts) ==
    /\ snapshot.taken
    /\ pret.op = "summary"
    /\ LET r == AnalyticsReport(snapshot.dict, pret.value, alerts, clock)
       IN  report' = [built |-> TRUE, object |-> r, values |-> ReadBack(r)]
    /\ UNCHANGED <<clock, engineVars, trackerVars, queryVars, perfVars,
                   serverVars>>

\* ---------------------------------------------------------------------
\* task_tracker: the store is the JSON file; every tool loads it, works on
\* the loaded dict and saves it at the end.  A dict is the sequence of its
\* values in key order, each task carrying its key in "id".
\* ---------------------------------------------------------------------
VALID_STATUSES == {"pending", "in_progress", "completed"}

\* None for an optional str argument and for an optional int argument.
NoneStr == "None"
NoneInt == -99

NoFile == [exists |-> FALSE]
NoTaskCall == [op |-> "none"]

\* json.dumps(tasks, indent=2, default=str) written to the file.
JsonDumps(tasks) == [exists |-> TRUE, json |-> tasks]

\* _load_tasks: {} when the file is missing, else json.loads of its text.
_load_tasks(f) == IF f.exists THEN f.json ELSE <<>>

Task(id, title, description, priority, status, created_at, updated_at, dependencies) ==
    [id |-> id, title |-> title, description |-> description,
     priority |-> priority, status |-> status, created_at |-> created_at,
     updated_at |-> updated_at, dependencies |-> dependencies]

\* The keys of a loaded dict, and the value under a key.
Keys(tasks) == {tasks[i].id : i \in DOMAIN tasks}
Pos(tasks, id) == CHOOSE i \in DOMAIN tasks : tasks[i].id = id
Get(tasks, id) == tasks[Pos(tasks, id)]

\* tasks[id] = task: in place for a key that is there, at the end otherwise.
DictPut(tasks, id, task) ==
    IF id \in Keys(tasks) THEN [tasks EXCEPT ![Pos(tasks, id)] = task]
    ELSE Append(tasks, task)

\* del tasks[id]
DictDel(tasks, id) ==
    LET Keep(t) == t.id # id
    IN  SelectSeq(tasks, Keep)

\* l.remove(x): the first occurrence goes.
ListRemove(l, x) ==
    IF \E i \in DOMAIN l : l[i] = x
    THEN LET i == CHOOSE j \in DOMAIN l :
                      l[j] = x /\ \A k \in 1..(j - 1) : l[k] # x
         IN  SubSeq(l, 1, i - 1) \o SubSeq(l, i + 1, Len(l))
    ELSE l

\* (t["priority"], t["created_at"]) <= the same of u
KeyLeq(t, u) ==
    \/ t.priority < u.priority
    \/ t.priority = u.priority /\ t.created_at <= u.created_at

\* sorted(results, key=lambda t: (t["priority"], t["created_at"]))
RECURSIVE SortedTasks(_)
SortedTasks(l) ==
    IF l = <<>> THEN <<>>
    ELSE LET front == SortedTasks(SubSeq(l, 1, Len(l) - 1))
             x == l[Len(l)]
             n == Cardinality({i \in DOMAIN front : KeyLeq(front[i], x)})
         IN  SubSeq(front, 1, n) \o <<x>> \o SubSeq(front, n + 1, Len(front))

Raise(tasks) == [raised |-> "ValueError", save |-> FALSE, tasks |-> tasks]
Return(value, save, tasks) ==
    [raised |-> "none", value |-> value, save |-> save, tasks |-> tasks]

\* The body of create_task on the loaded dict.
CreateTask(tasks, task_id, title, description, priority, now) ==
    IF ~(0 <= priority /\ priority <= 4) THEN Raise(tasks)
    ELSE LET task == Task(task_id, title, description, priority, "pending",
                          now, now, <<>>)
         IN  Return(task, TRUE, DictPut(tasks, task_id, task))

\* update_task with every assignment written to the store at once.
UpdateTaskWriteThrough(tasks, task_id, title, description, priority, status, now) ==
    IF task_id \notin Keys(tasks) THEN Raise(tasks)
    ELSE LET t0 == Get(tasks, task_id)
             t1 == IF title # NoneStr THEN [t0 EXCEPT !.title = title] ELSE t0
             t2 == IF description # NoneStr
                   THEN [t1 EXCEPT !.description = description] ELSE t1
         IN  IF priority # NoneInt /\ ~(0 <= priority /\ priority <= 4)
             THEN [raised |-> "ValueError", save |-> TRUE,
                   tasks |-> DictPut(tasks, task_id, t2)]
             ELSE LET t3 == IF priority # NoneInt
                            THEN [t2 EXCEPT !.priority = priority] ELSE t2
                  IN  IF status # NoneStr /\ status \notin VALID_STATUSES
                      THEN [raised |-> "ValueError", save |-> TRUE,
                            tasks |-> DictPut(tasks, task_id, t3)]
                      ELSE LET t4 == IF status # NoneStr
                                     THEN [t3 EXCEPT !.status = status] ELSE t3
                               t5 == [t4 EXCEPT !.updated_at = now]
                           IN  Return(t5, TRUE, DictPut(tasks, task_id, t5))

\* update_task with a priority that is not given read as the default 2.
UpdateTaskDefaults(tasks, task_id, title, description, priority, status, now) ==
    IF task_id \notin Keys(tasks) THEN Raise(tasks)
    ELSE LET t0 == Get(tasks, task_id)
             t1 == IF title # NoneStr THEN [t0 EXCEPT !.title = title] ELSE t0
             t2 == IF description # NoneStr
                   THEN [t1 EXCEPT !.description = description] ELSE t1
             p == IF priority = NoneInt THEN 2 ELSE priority
         IN  IF ~(0 <= p /\ p <= 4) THEN Raise(DictPut(tasks, task_id, t2))
             ELSE LET t3 == [t2 EXCEPT !.priority = p]
                  IN  IF status # NoneStr /\ status \notin VALID_STATUSES
                      THEN Raise(DictPut(tasks, task_id, t3))
                      ELSE LET t4 == IF status # NoneStr
                                     THEN [t3 EXCEPT !.status = status] ELSE t3
                               t5 == [t4 EXCEPT !.updated_at = now]
                           IN  Return(t5, TRUE, DictPut(tasks, task_id, t5))

\* The body of update_task on the loaded dict: the assignments happen in
\* order on the loaded task, and a raise leaves with what was assigned so
\* far, unsaved.
UpdateTask(tasks, task_id, title, description, priority, status, now) ==
    IF task_id \notin Keys(tasks) THEN Raise(tasks)
    ELSE LET t0 == Get(tasks, task_id)
             t1 == IF title # NoneStr THEN [t0 EXCEPT !.title = title] ELSE t0
             t2 == IF description # NoneStr
                   THEN [t1 EXCEPT !.description = description] ELSE t1
         IN  IF priority # NoneInt /\ ~(0 <= priority /\ priority <= 4)
             THEN Raise(DictPut(tasks, task_id, t2))
             ELSE LET t3 == IF priority # NoneInt
                            THEN [t2 EXCEPT !.priority = priority] ELSE t2
                  IN  IF status # NoneStr /\ status \notin VALID_STATUSES
                      THEN Raise(DictPut(tasks, task_id, t3))
                      ELSE LET t4 == IF status # NoneStr
                                     THEN [t3 EXCEPT !.status = status] ELSE t3
                               t5 == [t4 EXCEPT !.updated_at = now]
                           IN  Return(t5, TRUE, DictPut(tasks, task_id, t5))

\* delete_task without the clean-up loop.
DeleteTaskOnly(tasks, task_id) ==
    IF task_id \notin Keys(tasks) THEN Raise(tasks)
    ELSE Return("Deleted", TRUE, DictDel(tasks, task_id))

\* The body of delete_task on the loaded dict.
DeleteTask(tasks, task_id) ==
    IF task_id \notin Keys(tasks) THEN Raise(tasks)
    ELSE LET rest == DictDel(tasks, task_id)
             cleaned == [i \in DOMAIN rest |->
                            [rest[i] EXCEPT !.dependencies =
                                ListRemove(rest[i].dependencies, task_id)]]
         IN  Return("Deleted", TRUE, cleaned)

\* The body of list_tasks on the loaded dict.
ListTasks(tasks, status, priority) ==
    IF status # NoneStr /\ status \notin VALID_STATUSES THEN Raise(tasks)
    ELSE LET ByStatus(t) == status = NoneStr \/ t.status = status
             ByPriority(t) == priority = NoneInt \/ t.priority = priority
         IN  Return(SortedTasks(SelectSeq(SelectSeq(tasks, ByStatus), ByPriority)),
                    FALSE, tasks)

\* add_dependency without the test for a dependency that is there.
AddDependencyAgain(tasks, task_id, depends_on, now) ==
    IF task_id = depends_on THEN Raise(tasks)
    ELSE IF task_id \notin Keys(tasks) THEN Raise(tasks)
    ELSE IF depends_on \notin Keys(tasks) THEN Raise(tasks)
    ELSE LET task == Get(tasks, task_id)
             t1 == [task EXCEPT !.dependencies = Append(@, depends_on),
                                !.updated_at = now]
         IN  Return("Added dependency", TRUE, DictPut(tasks, task_id, t1))

\* The body of add_dependency on the loaded dict.
AddDependency(tasks, task_id, depends_on, now) ==
    IF task_id = depends_on THEN Raise(tasks)
    ELSE IF task_id \notin Keys(tasks) THEN Raise(tasks)
    ELSE IF depends_on \notin Keys(tasks) THEN Raise(tasks)
    ELSE LET task == Get(tasks, task_id)
         IN  IF \E i \in DOMAIN task.dependencies :
                    task.dependencies[i] = depends_on
             THEN Return("Dependency already exists", FALSE, tasks)
             ELSE LET t1 == [task EXCEPT
                                 !.dependencies = Append(@, depends_on),
                                 !.updated_at = now]
                  IN  Return("Added dependency", TRUE,
                             DictPut(tasks, task_id, t1))

\* tasks.get(dep_id, {}).get("status")
DepStatus(tasks, dep_id) ==
    IF dep_id \in Keys(tasks) THEN Get(tasks, dep_id).status ELSE NoneStr

\* Dependencies that have been started count as done.
AllDepsStarted(tasks, task) ==
    \A i \in DOMAIN task.dependencies :
        DepStatus(tasks, task.dependencies[i]) \in {"in_progress", "completed"}

\* all(... == "completed" for dep_id in task["dependencies"])
AllDepsDone(tasks, task) ==
    \A i \in DOMAIN task.dependencies :
        DepStatus(tasks, task.dependencies[i]) = "completed"

\* The body of get_ready_tasks on the loaded dict.
GetReadyTasks(tasks) ==
    LET IsReady(t) == t.status = "pending" /\ AllDepsDone(tasks, t)
    IN  Return(SortedTasks(SelectSeq(tasks, IsReady)), FALSE, tasks)

\* A tool call: what it was given, how it ended, and the file before it.
TaskCall(op, args, out) ==
    [op |-> op, args |-> args, raised |-> out.raised,
     value |-> IF out.raised = "none" THEN <<out.value>> ELSE <<>>,
     before |-> tasks_file]

\* The file after a tool call: _save_tasks runs only where the body reaches it.
AfterCall(out) == IF out.save THEN JsonDumps(out.tasks) ELSE tasks_file

TaskInit ==
    /\ tasks_file = NoFile
    /\ tret = NoTaskCall

\* create_task; task_id is uuid.uuid4().hex[:8], an id no stored task has.
create_task(task_id, title, description, priority) ==
    LET out == CreateTask(_load_tasks(tasks_file), task_id, title,
                          description, priority, clock)
    IN  /\ task_id \notin Keys(_load_tasks(tasks_file))
        /\ tasks_file' = AfterCall(out)
        /\ tret' = TaskCall("create_task",
                            [title |-> title, description |-> description,
                             priority |-> priority], out)
        /\ UNCHANGED <<clock, analyticsVars, kbVars>>

update_task(task_id, title, description, priority, status) ==
    LET out == UpdateTask(_load_tasks(tasks_file), task_id, title,
                          description, priority, status, clock)
    IN  /\ tasks_file' = AfterCall(out)
        /\ tret' = TaskCall("update_task",
                            [task_id |-> task_id, title |-> title,
                             description |-> description,
                             priority |-> priority, status |-> status], out)
        /\ UNCHANGED <<clock, analyticsVars, kbVars>>

delete_task(task_id) ==
    LET out == DeleteTask(_load_tasks(tasks_file), task_id)
    IN  /\ tasks_file' = AfterCall(out)
        /\ tret' = TaskCall("delete_task", [task_id |-> task_id], out)
        /\ UNCHANGED <<clock, analyticsVars, kbVars>>

list_tasks(status, priority) ==
    LET out == ListTasks(_load_tasks(tasks_file), status, priority)
    IN  /\ tasks_file' = AfterCall(out)
        /\ tret' = TaskCall("list_tasks",
                            [status |-> status, priority |-> priority], out)
        /\ UNCHANGED <<clock, analyticsVars, kbVars>>

add_dependency(task_id, depends_on) ==
    LET out == AddDependency(_load_tasks(tasks_file), task_id, depends_on,
                             clock)
    IN  /\ tasks_file' = AfterCall(out)
        /\ tret' = TaskCall("add_dependency",
                            [task_id |-> task_id, depends_on |-> depends_on],
                            out)
        /\ UNCHANGED <<clock, analyticsVars, kbVars>>

get_ready_tasks ==
    LET out == GetReadyTasks(_load_tasks(tasks_file))
    IN  /\ tasks_file' = AfterCall(out)
        /\ tret' = TaskCall("get_ready_tasks", <<>>, out)
        /\ UNCHANGED <<clock, analyticsVars, kbVars>>

\* ---------------------------------------------------------------------
\* markdown_kb: the index is the module-level _index_state.  A directory
\* is the set of positions of AllFiles it holds, NoDir a path that is not a
\* directory; the documents dict is the sequence of its values in key
\* order, each carrying its key in doc_id.
\* ---------------------------------------------------------------------
NoDir == {0}
Directories == (SUBSET DOMAIN AllFiles) \cup {NoDir}
NoKbCall == [op |-> "none"]

IndexState(documents, tfidf_matrix, vectorizer, doc_ids) ==
    [documents |-> documents, tfidf_matrix |-> tfidf_matrix,
     vectorizer |-> vectorizer, doc_ids |-> doc_ids]

\* The module-level initial value, None being <<>>.
EmptyIndex == IndexState(<<>>, <<>>, <<>>, <<>>)

\* re.search(r"^#\s+(.+)$", content, re.MULTILINE), on the contents of
\* AllFiles: the heading text, or "" for no match.
Heading(content) ==
    CASE content = "# First" -> "First"
      [] content = "# Second" -> "Second"
      [] OTHER -> ""

\* Path(filename).stem.replace("-", " ").replace("_", " ").title(), on the
\* stems of AllFiles.
StemTitle(stem) ==
    CASE stem = "readme" -> "Readme"
      [] stem = "guide" -> "Guide"
      [] stem = "notes" -> "Notes"
      [] stem = "todo" -> "Todo"

_extract_title(content, stem) ==
    IF Heading(content) # "" THEN Heading(content) ELSE StemTitle(stem)

\* _make_doc_id
_make_doc_id(file) == file.stem

\* len(content) on the contents of AllFiles.
Size(content) ==
    CASE content = "# First" -> 7
      [] content = "# Second" -> 8
      [] content = "third" -> 5
      [] content = "guide text" -> 10
      [] content = "" -> 0

DocIdsOf(documents) == {documents[i].doc_id : i \in DOMAIN documents}

\* documents[doc_id] = {...}
PutDocument(documents, doc) ==
    IF doc.doc_id \in DocIdsOf(documents)
    THEN LET i == CHOOSE j \in DOMAIN documents :
                      documents[j].doc_id = doc.doc_id
         IN  [documents EXCEPT ![i] = doc]
    ELSE Append(documents, doc)

\* sorted(root.rglob(f"*{ext}")) on a directory.
RECURSIVE Matching(_, _, _)
Matching(dir, ext, i) ==
    IF i > Len(AllFiles) THEN <<>>
    ELSE (IF i \in dir /\ AllFiles[i].ext = ext THEN <<AllFiles[i]>> ELSE <<>>)
         \o Matching(dir, ext, i + 1)

\* The body of the inner loop for one file.
ScanFile(acc, file) ==
    LET stem == _make_doc_id(file)
        doc_id == IF stem \in DocIdsOf(acc.documents)
                  THEN file.parent \o "_" \o stem ELSE stem
        doc == [doc_id |-> doc_id,
                title |-> _extract_title(file.content, file.stem),
                content |-> file.content, path |-> file.path]
    IN  [documents |-> PutDocument(acc.documents, doc),
         doc_ids |-> Append(acc.doc_ids, doc_id),
         corpus |-> Append(acc.corpus, file.content)]

RECURSIVE ScanFiles(_, _, _)
ScanFiles(acc, files, i) ==
    IF i > Len(files) THEN acc
    ELSE ScanFiles(ScanFile(acc, files[i]), files, i + 1)

\* `for ext in extensions`
RECURSIVE ScanExtensions(_, _, _, _)
ScanExtensions(acc, dir, extensions, e) ==
    IF e > Len(extensions) THEN acc
    ELSE ScanExtensions(ScanFiles(acc, Matching(dir, extensions[e], 1), 1),
                        dir, extensions, e + 1)

\* TfidfVectorizer(stop_words="english").fit_transform(corpus) raises
\* ValueError for a corpus without a word.
EmptyVocabulary(corpus) ==
    \A i \in DOMAIN corpus : corpus[i] = ""

\* The body of index_documents: the call's outcome and the index after it.
IndexDocuments(state, dir, extensions) ==
    LET exts == IF extensions = <<>> THEN <<".md">> ELSE extensions[1]
        acc == ScanExtensions([documents |-> <<>>, doc_ids |-> <<>>,
                               corpus |-> <<>>], dir, exts, 1)
    IN  IF dir = NoDir
        THEN [raised |-> "none", value |-> [error |-> TRUE], state |-> state]
        ELSE IF acc.corpus = <<>>
        THEN [raised |-> "none", value |-> [error |-> FALSE, indexed |-> 0],
              state |-> EmptyIndex]
        ELSE IF EmptyVocabulary(acc.corpus)
        THEN [raised |-> "ValueError", value |-> [error |-> TRUE],
              state |-> state]
        ELSE [raised |-> "none",
              value |-> [error |-> FALSE, indexed |-> Len(acc.doc_ids)],
              state |-> IndexState(acc.documents,
                                   <<[rows |-> Len(acc.corpus)]>>,
                                   <<"fitted">>, acc.doc_ids)]

\* The list list_documents returns.
ListDocuments(state) ==
    [i \in DOMAIN state.documents |->
        [doc_id |-> state.documents[i].doc_id,
         title |-> state.documents[i].title,
         path |-> state.documents[i].path,
         size |-> Size(state.documents[i].content)]]

KbInit ==
    /\ index_state = EmptyIndex
    /\ iret = NoKbCall

index_documents(dir, extensions) ==
    LET out == IndexDocuments(index_state, dir, extensions)
    IN  /\ index_state' = out.state
        /\ iret' = [op |-> "index_documents", dir |-> dir,
                    extensions |-> extensions, raised |-> out.raised,
                    value |-> out.value]
        /\ UNCHANGED <<clock, analyticsVars, taskVars>>

list_documents ==
    /\ iret' = [op |-> "list_documents", raised |-> "none",
                value |-> ListDocuments(index_state)]
    /\ UNCHANGED <<clock, analyticsVars, taskVars, index_state>>

\* ---------------------------------------------------------------------
\* Specifications
\* ---------------------------------------------------------------------
Init ==
    /\ clock = 0
    /\ EngineInit
    /\ TrackerInit
    /\ PerfInit
    /\ report = NoReport
    /\ TaskInit
    /\ KbInit

AddRuleAction == \E rule \in AllRules : add_rule(rule)
CheckAction == \E metrics \in AllMetrics : check(metrics)

NextEngine ==
    \/ AddRuleAction
    \/ CheckAction
    \/ Tick

SpecEngine == Init /\ [][NextEngine]_vars

RecordAction ==
    \E tool_name \in ToolNames, duration_ms \in Durations, success \in BOOLEAN,
       cost \in Costs, metadata \in Metadatas :
        record(tool_name, duration_ms, success, cost, metadata)

NextTracker == RecordAction

SpecTracker == Init /\ [][NextTracker]_vars

\* Ranking and point queries read count, total_cost and total_duration_ms:
\* the runs that query record three keys, always with success and without
\* metadata, with durations and costs that rank the keys differently.
QueryRecordAction ==
    \E tool_name \in QueryTools, dc \in QueryInputs :
        record(tool_name, dc[1], TRUE, dc[2], <<>>)

GetStatsAction == \E tool_name \in QueryTools : GetStats(tool_name)
TopToolsAction == \E n \in TopNs, by \in SortKeys : get_top_tools(n, by)

NextQueries ==
    \/ QueryRecordAction
    \/ GetStatsAction
    \/ TopToolsAction

SpecQueries == Init /\ [][NextQueries]_vars

\* The runs that take snapshots record two keys without metadata.
SnapshotRecordAction ==
    \E tool_name \in ToolNames, duration_ms \in Durations, success \in BOOLEAN,
       cost \in Costs :
        record(tool_name, duration_ms, success, cost, <<>>)

NextSnapshot ==
    \/ SnapshotRecordAction
    \/ get_all_stats

SpecSnapshot == Init /\ [][NextSnapshot]_vars

FrameRecordAction ==
    \E tool_name \in ToolNames, dc \in QueryInputs :
        record(tool_name, dc[1], TRUE, dc[2], <<>>)
FrameTopToolsAction == \E by \in SortKeys : get_top_tools(1, by)

\* Every operation of the tracker: record and the three queries.
NextFrame ==
    \/ FrameRecordAction
    \/ GetStatsAction
    \/ get_all_stats
    \/ FrameTopToolsAction

SpecFrame == Init /\ [][NextFrame]_vars

AddSampleAction == \E value \in SampleValues : add_sample(value)
PercentileAction == \E p \in Percents : percentile(p)

NextPerf ==
    \/ AddSampleAction
    \/ PercentileAction
    \/ p50
    \/ p95
    \/ p99
    \/ summary

SpecPerf == Init /\ [][NextPerf]_vars

\* A tracker, a PerformanceStats and an engine feeding one report: one tool,
\* one sample value, one rule and one metrics argument, all at one reading
\* of the clock.
ReportRule == AlertRule("high", "p99", 1, "gt", 0)
ReportMetrics == [k \in {"p99"} |-> 2]

ReportRecordAction == record("search", 2, TRUE, 1, <<>>)
ReportAddSampleAction == add_sample(2)
ReportAddRuleAction == add_rule(ReportRule)
ReportCheckAction == check(ReportMetrics)
BuildReportAction == \E alerts \in AlertLists : BuildReport(alerts)

NextReport ==
    \/ ReportRecordAction
    \/ get_all_stats
    \/ ReportAddSampleAction
    \/ summary
    \/ ReportAddRuleAction
    \/ ReportCheckAction
    \/ BuildReportAction

SpecReport == Init /\ [][NextReport]_vars

CreateTaskAction ==
    \E task_id \in TaskIds, priority \in CreatePriorities :
        create_task(task_id, "t", "", priority)
UpdateStatusAction ==
    \E task_id \in TaskIds, u \in StatusInputs :
        update_task(task_id, u[1], u[2], u[3], u[4])
DeleteTaskAction == \E task_id \in TaskIds : delete_task(task_id)
ListTasksAction == \E l \in ListInputs : list_tasks(l[1], l[2])
AddDependencyAction ==
    \E task_id \in TaskIds, depends_on \in TaskIds :
        add_dependency(task_id, depends_on)

\* Tasks with dependencies: three ids, and updates that move the status.
NextTasks ==
    \/ CreateTaskAction
    \/ UpdateStatusAction
    \/ DeleteTaskAction
    \/ AddDependencyAction
    \/ get_ready_tasks

SpecTasks == Init /\ [][NextTasks]_vars

EditCreateAction ==
    \E task_id \in EditIds, priority \in CreatePriorities :
        create_task(task_id, "t", "", priority)
UpdateTaskAction ==
    \E task_id \in TaskIds, u \in UpdateInputs :
        update_task(task_id, u[1], u[2], u[3], u[4])
EditDependencyAction ==
    \E task_id \in TaskIds : add_dependency(task_id, "a")

\* Tasks edited field by field: two ids, every argument of update_task with
\* values in and out of range, and every tool that can raise.
NextTaskEdit ==
    \/ EditCreateAction
    \/ UpdateTaskAction
    \/ DeleteTaskAction
    \/ ListTasksAction
    \/ EditDependencyAction

SpecTaskEdit == Init /\ [][NextTaskEdit]_vars

IndexDocumentsAction ==
    \E dir \in Directories, extensions \in ExtensionLists :
        index_documents(dir, extensions)

NextKb ==
    \/ IndexDocumentsAction
    \/ list_documents

SpecKb == Init /\ [][NextKb]_vars

\* ---------------------------------------------------------------------
\* Reading the check call that has just returned
\* ---------------------------------------------------------------------
IsCheck == call.op = "check"

\* The rules the call evaluated, by position.
Evaluated == DOMAIN call.trace

Present(i) == rules[i].metric \in DOMAIN call.metrics

\* The rule's metric is present and its condition holds for the value.
Holds(i) ==
    /\ Present(i)
    /\ LET v == call.metrics[rules[i].metric]
           t == rules[i].threshold
       IN  \/ rules[i].operator = "gt" /\ v > t
           \/ rules[i].operator = "lt" /\ v < t
           \/ rules[i].operator = "eq" /\ v = t

\* A last-fired timestamp was recorded for the rule's name when the loop
\* reached the rule.
HasEntry(i) == rules[i].name \in DOMAIN call.trace[i].before
Entry(i) == call.trace[i].before[rules[i].name]

Emitted(i) == call.trace[i].emitted
Cooldown(i) == rules[i].cooldown_seconds

\* ---------------------------------------------------------------------
\* AlertEngine properties
\* ---------------------------------------------------------------------

\* C1: once a rule has fired at time T, no later check emits an alert for
\* it at a time now with now - T < cooldown_seconds, T being the rule's own
\* last firing or the last-fired entry recorded for its name.
CooldownInvariant ==
    IsCheck =>
        \A i \in Evaluated :
            Emitted(i) =>
                /\ call.trace[i].fired[i] # NoneT =>
                       call.now - call.trace[i].fired[i] >= Cooldown(i)
                /\ HasEntry(i) => call.now - Entry(i) >= Cooldown(i)

\* C1 witness: a rule that fired before is triggered again inside its
\* cooldown and stays silent.
CooldownWitness ==
    /\ IsCheck
    /\ \E i \in Evaluated :
        /\ Holds(i)
        /\ call.trace[i].fired[i] # NoneT
        /\ call.now - call.trace[i].fired[i] < Cooldown(i)
        /\ ~Emitted(i)

\* C2 as claimed: a rule that fired in an earlier check emits again in any
\* later check made at least cooldown_seconds after that firing in which
\* its metric is present and its condition holds.
RefireAfterOwnFiring ==
    IsCheck =>
        \A i \in Evaluated :
            ( /\ call.trace[i].fired[i] # NoneT
              /\ call.now - call.trace[i].fired[i] >= Cooldown(i)
              /\ Holds(i) )
            => Emitted(i)

\* C2 as amended: a rule whose name has a last-fired timestamp T when the
\* rule is evaluated emits an alert if the check is made at least
\* cooldown_seconds after T with its metric present and its condition
\* holding, and T is then replaced by the time of the check.
RefireAfterCooldown ==
    IsCheck =>
        \A i \in Evaluated :
            ( /\ HasEntry(i)
              /\ call.now - Entry(i) >= Cooldown(i)
              /\ Holds(i) )
            => /\ Emitted(i)
               /\ call.trace[i].after[rules[i].name] = call.now

\* C2 witness: a rule with a positive cooldown that fired in an earlier
\* check fires again.
RefireWitness ==
    /\ IsCheck
    /\ \E i \in Evaluated :
        /\ Cooldown(i) > 0
        /\ call.trace[i].fired[i] # NoneT
        /\ HasEntry(i)
        /\ Emitted(i)

\* C3: a rule whose condition holds while it is inside its cooldown window
\* emits no alert and leaves the last-fired map, and with it the timestamp
\* recorded for its name, as it found it.
SuppressedChangesNothing ==
    IsCheck =>
        \A i \in Evaluated :
            ( /\ Holds(i)
              /\ HasEntry(i)
              /\ call.now - Entry(i) < Cooldown(i) )
            => /\ ~Emitted(i)
               /\ call.trace[i].after = call.trace[i].before
               /\ call.trace[i].after[rules[i].name] = Entry(i)

\* C3 witness: a trigger suppressed at a time later than the recorded
\* firing, after which the recorded timestamp is still the old one.
SuppressedWitness ==
    /\ IsCheck
    /\ \E i \in Evaluated :
        /\ Holds(i)
        /\ HasEntry(i)
        /\ call.now > Entry(i)
        /\ call.now - Entry(i) < Cooldown(i)
        /\ ~Emitted(i)
        /\ last_fired[rules[i].name] = Entry(i)

\* C4: an alert is emitted only for a rule whose metric is present and
\* whose gt/lt/eq condition holds; a rule with any other operator never
\* emits, never writes the last-fired map and never has a firing recorded,
\* and a name borne only by such rules never has a last-fired entry.
ConditionEvaluation ==
    /\ IsCheck =>
        \A i \in Evaluated :
            /\ Emitted(i) => Holds(i)
            /\ rules[i].operator \notin {"gt", "lt", "eq"} =>
                   /\ ~Emitted(i)
                   /\ call.trace[i].after = call.trace[i].before
    /\ \A i \in DOMAIN rules :
        rules[i].operator \notin {"gt", "lt", "eq"} =>
            /\ rule_fired[i] = NoneT
            /\ (\A j \in DOMAIN rules :
                    rules[j].name = rules[i].name =>
                        rules[j].operator \notin {"gt", "lt", "eq"})
               => rules[i].name \notin DOMAIN last_fired

\* C4 witness: a rule with operator "ne" is checked, after time has passed,
\* against a value different from its threshold and stays silent.
ConditionWitness ==
    /\ IsCheck
    /\ clock >= 2
    /\ \E i \in Evaluated :
        /\ rules[i].operator = "ne"
        /\ Present(i)
        /\ call.metrics[rules[i].metric] # rules[i].threshold
        /\ ~Emitted(i)
        /\ rules[i].name \notin DOMAIN last_fired

\* C5: a rule whose condition holds emits an alert if no last-fired
\* timestamp is recorded for its name when it is evaluated, and a rule
\* with cooldown_seconds = 0 emits exactly when its condition holds.
AlwaysEligible ==
    IsCheck =>
        \A i \in Evaluated :
            /\ (Holds(i) /\ ~HasEntry(i)) => Emitted(i)
            /\ Cooldown(i) = 0 => (Emitted(i) <=> Holds(i))

\* C5 witness: a rule with cooldown 0 fires again at the very time recorded
\* for its name, in a call in which a rule without an entry fires too.
AlwaysEligibleWitness ==
    /\ IsCheck
    /\ \E i \in Evaluated :
        /\ Cooldown(i) = 0
        /\ HasEntry(i)
        /\ Entry(i) = call.now
        /\ Emitted(i)
    /\ \E i \in Evaluated : ~HasEntry(i) /\ Emitted(i)

\* A rule that the loop body lets through: triggered and not in cooldown.
Eligible(i) ==
    /\ Holds(i)
    /\ ~(HasEntry(i) /\ call.now - Entry(i) < Cooldown(i))

\* C6: a rule whose metric key is absent emits no alert and leaves the
\* last-fired map unchanged, and every rule is still evaluated: the rules
\* after it fire when they are eligible.
MissingMetricSkipped ==
    IsCheck =>
        /\ Len(call.trace) = Len(rules)
        /\ \A i \in Evaluated :
            ~Present(i) =>
                /\ ~Emitted(i)
                /\ call.trace[i].after = call.trace[i].before
        /\ \A i \in DOMAIN rules :
            ~Present(i) =>
                \A j \in DOMAIN rules :
                    j > i => /\ j \in Evaluated
                             /\ Eligible(j) => Emitted(j)

\* C6 witness: a rule whose metric is absent is followed by a rule that
\* fires in the same call.
MissingMetricWitness ==
    /\ IsCheck
    /\ \E i, j \in Evaluated :
        /\ i < j
        /\ ~Present(i)
        /\ Emitted(j)

\* C7: the returned list holds one alert per emitting rule, in registration
\* order, and every alert carries the time of the call.
AlertOrdering ==
    IsCheck =>
        LET fired == {i \in Evaluated : Emitted(i)}
            n == Len(call.alerts)
        IN  /\ n = Cardinality(fired)
            /\ n <= Len(rules)
            /\ \E f \in [1..n -> fired] :
                /\ \A k, l \in 1..n : k < l => f[k] < f[l]
                /\ \A k \in 1..n :
                    /\ call.alerts[k].rule_name = rules[f[k]].name
                    /\ call.alerts[k].current_value = call.metrics[rules[f[k]].metric]
            /\ \A k \in 1..n : call.alerts[k].triggered_at = call.now

\* C7 witness: one call returns alerts of two rules with different names.
AlertOrderingWitness ==
    /\ IsCheck
    /\ Len(call.alerts) >= 2
    /\ call.alerts[1].rule_name # call.alerts[2].rule_name

\* C8: rules with the same name share one last-fired slot: a firing of one
\* sets the timestamp of the name, and the other, when triggered less than
\* its own cooldown after that firing, is suppressed, also later in the
\* same call.
SharedCooldownSlot ==
    IsCheck =>
        \A i, j \in Evaluated :
            (i # j /\ rules[i].name = rules[j].name) =>
                /\ Emitted(j) => call.trace[j].after[rules[i].name] = call.now
                /\ ( /\ call.trace[i].fired[j] # NoneT
                     /\ call.now - call.trace[i].fired[j] < Cooldown(i)
                     /\ Holds(i) )
                   => ~Emitted(i)

\* C8 witness: two rules with one name are registered; the first fires and
\* the second, which never fired itself, is suppressed in the same call.
SharedSlotWitness ==
    /\ IsCheck
    /\ \E i, j \in Evaluated :
        /\ j < i
        /\ rules[i].name = rules[j].name
        /\ Emitted(j)
        /\ Holds(i)
        /\ Cooldown(i) > 0
        /\ rule_fired[i] = NoneT
        /\ ~Emitted(i)

\* ---------------------------------------------------------------------
\* ToolUsageTracker properties
\* ---------------------------------------------------------------------

\* The record calls made so far with the given key, by position.
CallsFor(key) == {i \in DOMAIN recorded : recorded[i].tool_name = key}

\* The sum of one argument over the first n record calls made with key.
RECURSIVE SumRecorded(_, _, _)
SumRecorded(key, field, n) ==
    IF n = 0 THEN 0
    ELSE SumRecorded(key, field, n - 1)
         + (IF recorded[n].tool_name = key THEN recorded[n][field] ELSE 0)

\* C9: for every key, get_stats(key).count is the number of record calls
\* made with that key, success_count the number of those with success=True,
\* and total_duration_ms and total_cost the sums of their durations and
\* costs.
CountingByRecord ==
    \A key \in ToolNames :
        /\ get_stats(key).count = Cardinality(CallsFor(key))
        /\ get_stats(key).success_count =
               Cardinality({i \in CallsFor(key) : recorded[i].success})
        /\ get_stats(key).total_duration_ms =
               SumRecorded(key, "duration_ms", Len(recorded))
        /\ get_stats(key).total_cost = SumRecorded(key, "cost", Len(recorded))

\* C9 witness: one key was recorded twice, once with success and once
\* without, with different durations, and the other key once.
CountingWitness ==
    \E key \in ToolNames :
        /\ Cardinality(CallsFor(key)) = 2
        /\ get_stats(key).success_count = 1
        /\ get_stats(key).total_duration_ms = 1
        /\ get_stats(key).total_cost = 1
        /\ Len(recorded) = 3

\* C10: every stats entry has 0 <= success_count <= count and count >= 1.
StatsBounds ==
    \A key \in DOMAIN stats :
        /\ 0 <= stats[key].success_count
        /\ stats[key].success_count <= stats[key].count
        /\ stats[key].count >= 1

\* C10 witness: one key holds only failures and the other only successes,
\* so both ends of the range are met.
StatsBoundsWitness ==
    \E a, b \in DOMAIN stats :
        /\ stats[a].success_count = 0
        /\ stats[a].count = 2
        /\ stats[b].success_count = stats[b].count

\* ---------------------------------------------------------------------
\* ToolUsageTracker query properties
\* ---------------------------------------------------------------------

\* No record call was made with the key.
NeverRecorded(key) == \A i \in DOMAIN recorded : recorded[i].tool_name # key

\* C11: get_stats on a key that was never recorded does not fail, returns
\* an object with count, success_count and both totals 0, success_rate 0.0
\* and avg_duration 0.0, and creates no entry: the known keys and the
\* stats they map to are as before the call.
UnknownKeyStats ==
    (ret.op = "get_stats" /\ NeverRecorded(ret.tool_name)) =>
        /\ ret.raised = "none"
        /\ Content(ret.value) = ToolStats(0, 0, 0, 0)
        /\ success_rate(Content(ret.value)) = Zero
        /\ avg_duration(Content(ret.value)) = Zero
        /\ ret.tool_name \notin DOMAIN stats
        /\ DOMAIN stats = DOMAIN ret.before
        /\ stats = ret.before

\* C11 witness: a tracker that knows other keys is asked for a key it never
\* recorded.
UnknownKeyWitness ==
    /\ ret.op = "get_stats"
    /\ NeverRecorded(ret.tool_name)
    /\ Cardinality(DOMAIN stats) = 2
    /\ ret.value.kind = "fresh"

\* C12 as claimed: whatever is recorded after s = get_all_stats(), s keeps
\* its key set and every entry of s keeps the count, success_count,
\* total_duration_ms and total_cost it had when s was returned.
SnapshotIndependent ==
    snapshot.taken =>
        /\ DOMAIN snapshot.dict = DOMAIN snapshot.seen
        /\ \A k \in DOMAIN snapshot.dict :
            Content(snapshot.dict[k]) = snapshot.seen[k]

\* The ranking field of a known key, as the claims name it.
Ranked(by, key) ==
    CASE by = "count" -> stats[key].count
      [] by = "cost" -> stats[key].total_cost
      [] by = "duration" -> stats[key].total_duration_ms

IsRanking == ret.op = "get_top_tools" /\ ret.by \in {"count", "cost", "duration"}

\* C13: for n >= 1 and a valid by, get_top_tools returns min(n, number of
\* known keys) entries of distinct known keys with their stats, in
\* descending order of the field, none of them below a key left out.
TopToolsRanked ==
    (IsRanking /\ ret.n >= 1) =>
        LET v == ret.value
            returned == {v[i][1] : i \in DOMAIN v}
        IN  /\ ret.raised = "none"
            /\ Len(v) = Min(ret.n, Cardinality(DOMAIN stats))
            /\ \A i \in DOMAIN v :
                /\ v[i][1] \in DOMAIN stats
                /\ Content(v[i][2]) = stats[v[i][1]]
            /\ \A i, j \in DOMAIN v :
                i < j => /\ v[i][1] # v[j][1]
                         /\ Ranked(ret.by, v[i][1]) >= Ranked(ret.by, v[j][1])
            /\ \A k \in returned, u \in (DOMAIN stats) \ returned :
                Ranked(ret.by, k) >= Ranked(ret.by, u)

\* C13 witness: two of three known keys are returned by duration, the first
\* strictly above the second, and the first is not the key recorded first.
TopToolsWitness ==
    /\ IsRanking
    /\ ret.by = "duration"
    /\ ret.n = 2
    /\ Cardinality(DOMAIN stats) = 3
    /\ Len(ret.value) = 2
    /\ Ranked(ret.by, ret.value[1][1]) > Ranked(ret.by, ret.value[2][1])
    /\ ret.value[1][1] # invocations[1].tool_name

\* C14 as claimed: with a valid by, an n above the number of known keys
\* returns all entries, and every n <= 0 returns the empty sequence.
TopToolsBoundaries ==
    IsRanking =>
        /\ ret.n > Cardinality(DOMAIN stats) =>
               Len(ret.value) = Cardinality(DOMAIN stats)
        /\ ret.n <= 0 => ret.value = <<>>

\* C15: with a by other than count, cost and duration, get_top_tools raises
\* ValueError for every n and every tracker state, returns nothing, and
\* leaves the event log and the stats map as they were.
InvalidSortKeyRaises ==
    (ret.op = "get_top_tools" /\ ret.by \notin {"count", "cost", "duration"}) =>
        /\ ret.raised = "ValueError"
        /\ "value" \notin DOMAIN ret
        /\ stats = ret.before
        /\ invocations = ret.log

\* C15 witness: a tracker with two known keys is asked for its top tool by
\* "bogus" and the call raises.
InvalidSortKeyWitness ==
    /\ ret.op = "get_top_tools"
    /\ ret.by = "bogus"
    /\ ret.n = 1
    /\ Cardinality(DOMAIN stats) = 2
    /\ ret.raised = "ValueError"

\* ---------------------------------------------------------------------
\* PerformanceStats claims
\* ---------------------------------------------------------------------
IsPercentile == pret.op \in {"percentile", "p50", "p95", "p99"}

\* The samples of s by rank: the i-th smallest value, whatever the order
\* they were added in.
RankOrder(s) ==
    [i \in 1..Len(s) |->
        CHOOSE v \in {s[j] : j \in DOMAIN s} :
            /\ Cardinality({j \in DOMAIN s : s[j] < v}) < i
            /\ i <= Cardinality({j \in DOMAIN s : s[j] <= v})]

\* Linear interpolation between closest ranks, with k = (p/100)*(N-1) in
\* lowest terms and ranks counted from 0.
Reference(s, p) ==
    LET N == Len(s)
        r == RankOrder(s)
        k == Frac(p * (N - 1), 100)
        floor == k[1] \div k[2]
        ceil == floor + 1
    IN  IF N = 0 THEN Zero
        ELSE IF N = 1 THEN <<s[1], 1>>
        ELSE IF k[2] = 1 THEN <<r[k[1] + 1], 1>>
        ELSE Frac(r[floor + 1] * k[2]
                  + (k[1] - floor * k[2]) * (r[ceil + 1] - r[floor + 1]),
                  k[2])

Distinct(s) == \A i, j \in DOMAIN s : i # j => s[i] # s[j]
OutOfOrder(s) == \E i, j \in DOMAIN s : i < j /\ s[i] > s[j]

\* C16: percentile(p), for p in 0..100, returns the linear interpolation
\* between closest ranks of the samples added: 0 with no sample, the sample
\* itself with one, and otherwise s[k] or the interpolation between
\* s[floor k] and s[ceil k], whatever the order the samples were added in.
PercentileReference ==
    IsPercentile => pret.value = Reference(added, pret.p)

\* C16 witness: percentile(p) has returned on three or more samples added
\* out of order, with a k that is not integral and a result that is none of
\* the samples.
PercentileWitness ==
    /\ pret.op = "percentile"
    /\ Len(added) >= 3
    /\ OutOfOrder(added)
    /\ (pret.p * (Len(added) - 1)) % 100 # 0
    /\ \A i \in DOMAIN added : pret.value # <<added[i], 1>>

\* C17: on a non-empty sample list, for all p <= q in 0..100,
\* min <= percentile(p) <= percentile(q) <= max, and with two or more
\* samples, all distinct, percentile(p) < percentile(q) for p < q; so
\* p50 < p95 < p99 there.
PercentileOrdered ==
    samples # <<>> =>
        \A p, q \in Percents :
            p <= q =>
                /\ FracLeq(Float(MinOf(added)), PercentileOf(samples, p))
                /\ FracLeq(PercentileOf(samples, p), PercentileOf(samples, q))
                /\ FracLeq(PercentileOf(samples, q), Float(MaxOf(added)))
                /\ (Len(samples) >= 2 /\ Distinct(samples) /\ p < q) =>
                       FracLess(PercentileOf(samples, p),
                                PercentileOf(samples, q))

\* C17 witness: p95 has returned on three or more distinct samples added out
\* of order, strictly between the smallest and the largest of them.
PercentileOrderedWitness ==
    /\ pret.op = "p95"
    /\ Len(added) >= 3
    /\ Distinct(added)
    /\ OutOfOrder(added)
    /\ FracLess(Float(MinOf(added)), pret.value)
    /\ FracLess(pret.value, Float(MaxOf(added)))

\* C18: percentile, p50, p95, p99 and summary leave the sample list as the
\* add_sample calls made it, in content and in order, so every query returns
\* what it returns on the add_sample calls alone.
QueriesReadOnly ==
    /\ samples = added
    /\ IsPercentile => pret.value = PercentileOf(added, pret.p)
    /\ pret.op = "summary" => pret.value = SummaryOf(added)

\* C18 witness: summary has returned on three or more samples added out of
\* order, and the list still has the order of the calls.
QueriesReadOnlyWitness ==
    /\ pret.op = "summary"
    /\ Len(added) >= 3
    /\ OutOfOrder(added)
    /\ samples = added

SummaryKeys == {"min", "max", "mean", "std", "p50", "p95", "p99", "count"}

\* C19: summary() returns exactly the keys min, max, mean, std, p50, p95,
\* p99 and count; every field is 0 when no sample was added; std is 0 with
\* at most one sample; count is the number of add_sample calls so far, and
\* min and max are the smallest and the largest sample added.
SummaryFields ==
    pret.op = "summary" =>
        /\ DOMAIN pret.value = SummaryKeys
        /\ added = <<>> =>
               /\ \A key \in SummaryKeys \ {"count"} : pret.value[key] = Zero
               /\ pret.value.count = 0
        /\ Len(added) <= 1 => pret.value.std = Zero
        /\ pret.value.count = Len(added)
        /\ added # <<>> =>
               /\ pret.value.min = <<MinOf(added), 1>>
               /\ pret.value.max = <<MaxOf(added), 1>>
               /\ \A i \in DOMAIN added :
                      /\ FracLeq(pret.value.min, <<added[i], 1>>)
                      /\ FracLeq(<<added[i], 1>>, pret.value.max)

\* C19 witness: summary has returned on two samples added largest first,
\* with a min below its max and a std that is not 0.
SummaryWitness ==
    /\ pret.op = "summary"
    /\ Len(added) = 2
    /\ added[1] > added[2]
    /\ FracLess(pret.value.min, pret.value.max)
    /\ pret.value.std # Zero
    /\ pret.value.count = 2

\* ---------------------------------------------------------------------
\* AnalyticsReport claims
\* ---------------------------------------------------------------------
\* C20 as claimed: a report built from get_all_stats(), a summary and an
\* alert list reads back the values it was built from, and after any later
\* record, add_sample and check calls its tool_stats, performance, alerts
\* and generated_at still equal the values at construction.
ReportImmutable ==
    report.built => ReadBack(report.object) = report.values

\* ---------------------------------------------------------------------
\* task_tracker claims
\* ---------------------------------------------------------------------
\* The stored tasks and the tasks stored before the call that has returned.
Stored == _load_tasks(tasks_file)
StoredBefore == _load_tasks(tret.before)
Succeeded(op) == tret.op = op /\ tret.raised = "none"
Raised(op) == tret.op = op /\ tret.raised = "ValueError"

\* The ids in a list of tasks or of ids.
Range(l) == {l[i] : i \in DOMAIN l}
NoRepeats(l) == \A i, j \in DOMAIN l : i # j => l[i] # l[j]

\* The stored tasks that are pending with every dependency a stored,
\* completed task.
ReadySet ==
    {t \in Range(Stored) :
        /\ t.status = "pending"
        /\ \A d \in Range(t.dependencies) :
               \E u \in Range(Stored) : u.id = d /\ u.status = "completed"}

\* C21: get_ready_tasks returns exactly the stored tasks that are pending
\* and whose dependencies are all completed, each once: a pending task
\* without dependencies is returned, a task with a pending or in_progress
\* dependency is not, and neither is an in_progress or completed task.
ReadyTasksExact ==
    tret.op = "get_ready_tasks" =>
        /\ tret.raised = "none"
        /\ Range(tret.value[1]) = ReadySet
        /\ NoRepeats(tret.value[1])
        /\ \A t \in Range(Stored) :
               (t.status = "pending" /\ t.dependencies = <<>>) =>
                   t \in Range(tret.value[1])
        /\ \A t \in Range(tret.value[1]) : t.status = "pending"

\* C21 witness: get_ready_tasks has returned one task of three, which has a
\* completed dependency, and left out a pending task whose dependency is not
\* completed.
ReadyTasksWitness ==
    /\ Succeeded("get_ready_tasks")
    /\ Len(Stored) = 3
    /\ Len(tret.value[1]) = 1
    /\ tret.value[1][1].dependencies # <<>>
    /\ \E t \in Range(Stored) :
           /\ t.status = "pending"
           /\ t.dependencies # <<>>
           /\ t \notin Range(tret.value[1])

\* C22: every id in a stored task's dependencies is the id of a stored
\* task, and a delete_task(t) that succeeds leaves the other tasks as they
\* were, without t among them and without t in their dependencies.
NoDanglingDependencies ==
    /\ \A t \in Range(Stored) : Range(t.dependencies) \subseteq Keys(Stored)
    /\ Succeeded("delete_task") =>
           /\ tret.args.task_id \in Keys(StoredBefore)
           /\ Keys(Stored) = Keys(StoredBefore) \ {tret.args.task_id}
           /\ \A t \in Range(Stored) :
                  /\ tret.args.task_id \notin Range(t.dependencies)
                  /\ \E b \in Range(StoredBefore) :
                         /\ b.id = t.id
                         /\ Range(t.dependencies) =
                                Range(b.dependencies) \ {tret.args.task_id}
                         /\ [t EXCEPT !.dependencies = <<>>] =
                                [b EXCEPT !.dependencies = <<>>]

\* C22 witness: delete_task has deleted a task that two other tasks
\* depended on, one of them on a further task as well.
NoDanglingWitness ==
    /\ Succeeded("delete_task")
    /\ Len(Stored) = 2
    /\ \A b \in Range(StoredBefore) :
           b.id # tret.args.task_id =>
               tret.args.task_id \in Range(b.dependencies)
    /\ \E t \in Range(Stored) : t.dependencies # <<>>

\* What add_dependency was called with.
SelfOrUnknown ==
    \/ tret.args.task_id = tret.args.depends_on
    \/ tret.args.task_id \notin Keys(StoredBefore)
    \/ tret.args.depends_on \notin Keys(StoredBefore)
AlreadyThere ==
    /\ ~SelfOrUnknown
    /\ tret.args.depends_on \in
           Range(Get(StoredBefore, tret.args.task_id).dependencies)

\* C23: add_dependency raises ValueError for a self-dependency and for an
\* unknown task_id or depends_on, and answers "already exists" for a
\* dependency that is there, the store unchanged in each case; no stored
\* task has its own id or an id twice in its dependencies.
DependenciesWellFormed ==
    /\ tret.op = "add_dependency" =>
           /\ SelfOrUnknown => (tret.raised = "ValueError" /\ tasks_file = tret.before)
           /\ AlreadyThere =>
                  /\ tret.raised = "none"
                  /\ tret.value = <<"Dependency already exists">>
                  /\ tasks_file = tret.before
           /\ (~SelfOrUnknown /\ ~AlreadyThere) =>
                  tret.value = <<"Added dependency">>
    /\ \A t \in Range(Stored) :
           /\ t.id \notin Range(t.dependencies)
           /\ NoRepeats(t.dependencies)

\* C23 witness: add_dependency has answered "already exists" for a task
\* that depends on two others.
DependenciesWitness ==
    /\ Succeeded("add_dependency")
    /\ tret.value = <<"Dependency already exists">>
    /\ Len(Get(Stored, tret.args.task_id).dependencies) = 2

\* The updated task as it was stored before update_task, and as it is now.
Updated == Get(Stored, tret.args.task_id)
UpdatedBefore == Get(StoredBefore, tret.args.task_id)

\* C24: an update_task that succeeds sets title, description, priority and
\* status to the values given and keeps those not given, keeps the task's
\* id, created_at and dependencies, and keeps every other task; every stored
\* status is pending, in_progress or completed and every stored priority is
\* in 0..4.
UpdateChangesOnlyGiven ==
    /\ Succeeded("update_task") =>
           /\ Updated.title = IF tret.args.title # NoneStr
                              THEN tret.args.title ELSE UpdatedBefore.title
           /\ Updated.description = IF tret.args.description # NoneStr
                                    THEN tret.args.description
                                    ELSE UpdatedBefore.description
           /\ Updated.priority = IF tret.args.priority # NoneInt
                                 THEN tret.args.priority
                                 ELSE UpdatedBefore.priority
           /\ Updated.status = IF tret.args.status # NoneStr
                               THEN tret.args.status ELSE UpdatedBefore.status
           /\ Updated.id = UpdatedBefore.id
           /\ Updated.created_at = UpdatedBefore.created_at
           /\ Updated.dependencies = UpdatedBefore.dependencies
           /\ tret.value = <<Updated>>
           /\ Len(Stored) = Len(StoredBefore)
           /\ \A i \in DOMAIN Stored :
                  Stored[i].id # tret.args.task_id =>
                      Stored[i] = StoredBefore[i]
    /\ \A t \in Range(Stored) :
           /\ t.status \in VALID_STATUSES
           /\ t.priority \in 0..4

\* C24 witness: update_task has set only the title of a task that has a
\* dependency and a priority and status set earlier, next to another task.
UpdateWitness ==
    /\ Succeeded("update_task")
    /\ tret.args.title = "u"
    /\ tret.args.priority = NoneInt
    /\ tret.args.status = NoneStr
    /\ Len(Stored) = 2
    /\ UpdatedBefore.title = "t"
    /\ Updated.priority = 0
    /\ Updated.status = "completed"
    /\ Updated.dependencies # <<>>

\* C25: a create_task, update_task, delete_task, add_dependency or
\* list_tasks call that raises ValueError leaves the file of stored tasks as
\* it was, also when update_task was given a valid title or description
\* with the invalid priority or status.
FailedCallsKeepStore ==
    (tret.op \in {"create_task", "update_task", "delete_task",
                  "add_dependency", "list_tasks"}
         /\ tret.raised = "ValueError") =>
        tasks_file = tret.before

\* C25 witness: update_task has raised on a stored task for priority 5 given
\* together with a new title, and the task still has its old title.
FailedUpdateWitness ==
    /\ Raised("update_task")
    /\ tret.args.title = "u"
    /\ tret.args.priority = 5
    /\ tret.args.task_id \in Keys(Stored)
    /\ Updated.title = "t"

\* ---------------------------------------------------------------------
\* Frame and history claims of analytics.py
\* ---------------------------------------------------------------------
\* The key of the record call a step makes.
RecordedKey == recorded'[Len(recorded')].tool_name

\* C26: record(key, ...) creates the key's entry if it is absent and changes
\* the count, success_count, total_duration_ms and total_cost of no other
\* key, and get_stats, get_all_stats and get_top_tools change no aggregate
\* and add or remove no key.
RecordTouchesOneKey ==
    [][ /\ recorded' # recorded =>
               /\ DOMAIN stats' = DOMAIN stats \cup {RecordedKey}
               /\ \A k \in DOMAIN stats \ {RecordedKey} : stats'[k] = stats[k]
               /\ stats'[RecordedKey].count =
                      DictGetZero([k \in DOMAIN stats |-> stats[k].count],
                                  RecordedKey) + 1
        /\ recorded' = recorded => stats' = stats
        /\ ret'.op \in {"get_stats", "get_all_stats", "get_top_tools"} =>
               (stats' = stats /\ recorded' = recorded)
      ]_vars

\* C26 witness: the third record call went to a second key, and
\* get_all_stats has returned after it with both keys.
RecordFrameWitness ==
    /\ ret.op = "get_all_stats"
    /\ Len(recorded) = 3
    /\ recorded[3].tool_name # recorded[1].tool_name
    /\ recorded[2].tool_name = recorded[1].tool_name
    /\ Cardinality(DOMAIN stats) = 2
    /\ stats[recorded[1].tool_name].count = 2

\* The metadata an event carries for a metadata argument.
GivenMetadata(metadata) == IF metadata = <<>> THEN EmptyMap ELSE metadata[1]

\* The counts of the keys in K added up.
RECURSIVE SumCount(_)
SumCount(K) ==
    IF K = {} THEN 0
    ELSE LET k == CHOOSE x \in K : TRUE
         IN  stats[k].count + SumCount(K \ {k})

\* C27: each record call appends one event with the key, duration, success
\* flag, cost and metadata it was given and leaves the earlier events as
\* they were; the log has as many events as the counts of all keys add up
\* to, and as many events of a key as that key's count.
LogAppendOnly ==
    /\ [](/\ Len(invocations) = SumCount(DOMAIN stats)
          /\ \A k \in ToolNames :
                 Cardinality({i \in DOMAIN invocations :
                                  invocations[i].tool_name = k})
                     = DictGetZero([x \in DOMAIN stats |-> stats[x].count], k)
          /\ Len(invocations) = Len(recorded))
    /\ [][ /\ Len(invocations') >= Len(invocations)
           /\ SubSeq(invocations', 1, Len(invocations)) = invocations
           /\ recorded' # recorded =>
                  /\ Len(invocations') = Len(invocations) + 1
                  /\ LET e == invocations'[Len(invocations')]
                         a == recorded'[Len(recorded')]
                     IN  /\ e.tool_name = a.tool_name
                         /\ e.duration_ms = a.duration_ms
                         /\ e.success = a.success
                         /\ e.cost = a.cost
                         /\ e.metadata = GivenMetadata(a.metadata)
           /\ recorded' = recorded => invocations' = invocations
         ]_vars

\* C27 witness: three events are logged, two of one key, one of them failed
\* and one with metadata and a cost.
LogWitness ==
    /\ Len(invocations) = 3
    /\ Cardinality(DOMAIN stats) = 2
    /\ \E i \in DOMAIN invocations : ~invocations[i].success
    /\ \E i \in DOMAIN invocations :
           invocations[i].metadata # EmptyMap /\ invocations[i].cost = 1

\* The rules with the given name that have emitted an alert, by position.
FiredWithName(name) ==
    {i \in DOMAIN rules : rules[i].name = name /\ rule_fired[i] # NoneT}

\* C28: a rule name has a last-fired entry exactly when some check has
\* emitted an alert with that name, the entry is the triggered_at of the
\* latest such alert, and each alert a check emits carries its rule's name,
\* the value the check was given for the rule's metric, the rule's
\* threshold and the time of the check.
LastFiredRecordsFirings ==
    /\ DOMAIN last_fired = {rules[i].name : i \in {j \in DOMAIN rules : rule_fired[j] # NoneT}}
    /\ \A name \in DOMAIN last_fired :
           /\ \E i \in FiredWithName(name) : last_fired[name] = rule_fired[i]
           /\ \A i \in FiredWithName(name) : last_fired[name] >= rule_fired[i]
    /\ IsCheck =>
           /\ \A k \in DOMAIN call.alerts :
                  /\ \E i \in Evaluated :
                         /\ Emitted(i)
                         /\ call.alerts[k].rule_name = rules[i].name
                         /\ call.alerts[k].current_value = call.metrics[rules[i].metric]
                         /\ call.alerts[k].threshold = rules[i].threshold
                  /\ call.alerts[k].triggered_at = call.now
                  /\ last_fired[call.alerts[k].rule_name] = call.now
           /\ \A i \in Evaluated :
                  Emitted(i) => \E k \in DOMAIN call.alerts :
                                    call.alerts[k].rule_name = rules[i].name

\* C28 witness: a check has emitted an alert for a name that had fired at
\* an earlier time, while another name keeps its entry from before.
LastFiredWitness ==
    /\ IsCheck
    /\ Len(call.alerts) = 1
    /\ Cardinality(DOMAIN last_fired) = 2
    /\ \E i \in Evaluated :
           /\ Emitted(i)
           /\ HasEntry(i)
           /\ Entry(i) < call.now
    /\ \E name \in DOMAIN last_fired : last_fired[name] < call.now

\* The rule add_rule has just registered.
NewRule == rules[Len(rules)]

\* C29: check leaves the registered rules as they are and add_rule leaves
\* the last-fired map as it is, adding the rule at the end; so a rule added
\* after a rule of the same name has fired starts inside that firing's
\* cooldown window, and a check inside the window does not emit for it.
EngineStateSeparate ==
    /\ [][ /\ call'.op = "check" => rules' = rules
           /\ call'.op = "add_rule" =>
                  /\ last_fired' = last_fired
                  /\ Len(rules') = Len(rules) + 1
                  /\ SubSeq(rules', 1, Len(rules)) = rules
         ]_vars
    /\ []( /\ call.op = "add_rule" =>
                  \A j \in DOMAIN rules :
                      ( /\ j < Len(rules)
                        /\ rules[j].name = NewRule.name
                        /\ rule_fired[j] # NoneT )
                      => /\ NewRule.name \in DOMAIN last_fired
                         /\ last_fired[NewRule.name] >= rule_fired[j]
           /\ IsCheck =>
                  \A i \in Evaluated :
                      ( /\ call.trace[i].fired[i] = NoneT
                        /\ HasEntry(i)
                        /\ call.now - Entry(i) < Cooldown(i) )
                      => ~Emitted(i) )

\* C29 witness: add_rule has registered a rule whose name fired one second
\* ago, inside the new rule's cooldown of two.
EngineSeparateWitness ==
    /\ call.op = "add_rule"
    /\ Len(rules) = 2
    /\ NewRule.name = rules[1].name
    /\ rule_fired[1] # NoneT
    /\ rule_fired[2] = NoneT
    /\ NewRule.name \in DOMAIN last_fired
    /\ clock - last_fired[NewRule.name] = 1
    /\ NewRule.cooldown_seconds = 2

\* ---------------------------------------------------------------------
\* markdown_kb claims
\* ---------------------------------------------------------------------
\* The files the call that has returned found, one entry per visit.
Found ==
    LET exts == IF iret.extensions = <<>> THEN <<".md">> ELSE iret.extensions[1]
    IN  {<<e, i>> \in (DOMAIN exts) \X iret.dir :
            i \in DOMAIN AllFiles /\ AllFiles[i].ext = exts[e]}

\* C30 as claimed: after an index_documents call that indexed, the number it
\* reports is the number of documents stored and listed, doc_ids has no
\* duplicates and holds exactly the stored ids, every file found has a
\* document of its own, and the stored documents are those of this call.
IndexSelfConsistent ==
    (iret.op = "index_documents" /\ iret.raised = "none" /\ ~iret.value.error) =>
        /\ iret.value.indexed = Len(index_state.documents)
        /\ iret.value.indexed = Len(ListDocuments(index_state))
        /\ NoRepeats(index_state.doc_ids)
        /\ Range(index_state.doc_ids) = DocIdsOf(index_state.documents)
        /\ Len(index_state.documents) = Cardinality(Found)
        /\ \A i \in DOMAIN index_state.documents :
               \E f \in Found :
                   AllFiles[f[2]].path = index_state.documents[i].path

====
